---- MODULE Spec2Model ----
(***************************************************************************)
(* Real-time position ingestion server (express + socket.io).              *)
(*                                                                         *)
(* The repository holds two builds of the same server:                     *)
(*   "mem" : src/unnamed/part_000 - update_position writes dataInMemory,   *)
(*           POST /api/admin/resetar broadcasts erro_sistema;              *)
(*   "db"  : src/src/server.ts    - update_position awaits a supabase      *)
(*           insert into 'coordinates' inside try/catch.                   *)
(* The variable `variant` says which build is running.                     *)
(***************************************************************************)
EXTENDS Integers, Sequences, FiniteSets, TLC

\* ------------------------------------------------------------------ bounds
MaxSockets == 2

MaxMessages == 2

MaxResets == 1

\* ------------------------------------------------------- JavaScript values
\* A JavaScript value of the kinds a payload field can hold.
Undefined == [t |-> "undefined", n |-> 0, s |-> ""]

Num(k) == [t |-> "number", n |-> k, s |-> ""]

Str(x) == [t |-> "string", n |-> 0, s |-> x]

Digit(d) ==
  CASE d = 0 -> "0" [] d = 1 -> "1" [] d = 2 -> "2" [] d = 3 -> "3"
    [] d = 4 -> "4" [] d = 5 -> "5" [] d = 6 -> "6" [] d = 7 -> "7"
    [] d = 8 -> "8" [] d = 9 -> "9"

RECURSIVE NatToString(_)
NatToString(k) ==
  IF k < 10 THEN Digit(k) ELSE NatToString(k \div 10) \o Digit(k % 10)

\* Number.prototype.toString for the integers of the model.
NumberToString(k) == IF k < 0 THEN "-" \o NatToString(-k) ELSE NatToString(k)

\* The template literal `${v}`.
TemplateString(v) ==
  CASE v.t = "string" -> v.s
    [] v.t = "number" -> NumberToString(v.n)
    [] v.t = "undefined" -> "undefined"

\* ----------------------------------------------------------------- payloads
\* The argument of an update_position event: an object with (some of) the
\* fields, or no argument at all.
Obj(u, t, la, ln) ==
  [kind |-> "object", userId |-> u, tripId |-> t, lat |-> la, lng |-> ln]

NoPayload ==
  [kind |-> "undefined", userId |-> Undefined, tripId |-> Undefined,
   lat |-> Undefined, lng |-> Undefined]

Payloads ==
  { Obj(Str("u1"), Str("t1"), Num(10), Num(20)),
    Obj(Str("u1"), Str("t1"), Num(11), Num(21)),
    Obj(Num(1),    Str("t1"), Num(12), Num(22)),
    Obj(Str("1"),  Str("t1"), Num(91), Num(23)),
    Obj(Str("u1"), Undefined, Num(10), Num(181)),
    NoPayload }

\* data.f is a TypeError when data is undefined.
Throws(data) == data.kind = "undefined"

Get(data, f) == IF data.kind = "object" THEN data[f] ELSE Undefined

\* --------------------------------------------------------------------- state
VARIABLES
  variant,       \* "mem" | "db": the build that runs
  running,       \* the node process is alive (no uncaught exception yet)
  nextSocket,    \* the id the next accepted socket gets
  connected,     \* ids of the sockets connected now
  dataInMemory,  \* Record<string, any>: key |-> [lat, lng]
  received,      \* console.log of every update_position, in arrival order
  inserts,       \* supabase insert calls, in call order, with their state
  errors,        \* number of console.error calls
  emitted,       \* per socket, the events the server sent to it
  responses      \* number of {ok: true} answers of POST /api/admin/resetar

vars ==
  <<variant, running, nextSocket, connected, dataInMemory, received,
    inserts, errors, emitted, responses>>

Sockets == 1 .. MaxSockets

\* socket.data.userId: declared by SocketData, assigned nowhere.
SocketUserId(s) == Undefined

ErroSistema == [event |-> "erro_sistema", arg |-> "Sistema reiniciando, aguarde..."]

Init ==
  /\ variant \in {"mem", "db"}
  /\ running = TRUE
  /\ nextSocket = 1
  /\ connected = {}
  /\ dataInMemory = [k \in {} |-> [lat |-> Undefined, lng |-> Undefined]]
  /\ received = <<>>
  /\ inserts = <<>>
  /\ errors = 0
  /\ emitted = [s \in Sockets |-> <<>>]
  /\ responses = 0

\* obj[key] = value
Put(obj, key, value) ==
  [k \in DOMAIN obj \cup {key} |-> IF k = key THEN value ELSE obj[k]]

Awaiting == {i \in DOMAIN inserts : inserts[i].state = "pending"}

\* `${data.userId}`, the key of the cache entry.
Key(data) == TemplateString(Get(data, "userId"))

\* { lat: data.lat, lng: data.lng }, the cache entry.
Position(data) == [lat |-> Get(data, "lat"), lng |-> Get(data, "lng")]

\* ------------------------------------------------------------------ actions
Connect ==
  /\ running
  /\ nextSocket <= MaxSockets
  /\ connected' = connected \cup {nextSocket}
  /\ nextSocket' = nextSocket + 1
  /\ UNCHANGED <<variant, running, dataInMemory, received, inserts, errors,
                 emitted, responses>>

Disconnect(s) ==
  /\ running
  /\ s \in connected
  /\ connected' = connected \ {s}
  /\ UNCHANGED <<variant, running, nextSocket, dataInMemory, received,
                 inserts, errors, emitted, responses>>

\* The handler with the rebroadcast of part_000 line 82 switched on:
\* socket.broadcast.emit("palete_movimentado", ...) to all but the sender.
PaleteMovimentado(data) == [event |-> "palete_movimentado", arg |-> Key(data)]

UpdatePositionMemBroadcasting(s, data) ==
  /\ variant = "mem"
  /\ running
  /\ s \in connected
  /\ Len(received) < MaxMessages
  /\ received' = Append(received, [sock |-> s, data |-> data])
  /\ IF Throws(data)
       THEN /\ running' = FALSE
            /\ UNCHANGED <<dataInMemory, emitted>>
       ELSE /\ dataInMemory' = Put(dataInMemory, Key(data), Position(data))
            /\ emitted' = [r \in Sockets |->
                             IF r \in connected \ {s}
                               THEN Append(emitted[r], PaleteMovimentado(data))
                               ELSE emitted[r]]
            /\ UNCHANGED running
  /\ UNCHANGED <<variant, nextSocket, connected, inserts, errors, responses>>

\* part_000: the synchronous handler. data.userId on a missing payload is a
\* TypeError nothing catches: the process dies with it.
UpdatePositionMem(s, data) ==
  /\ variant = "mem"
  /\ running
  /\ s \in connected
  /\ Len(received) < MaxMessages
  /\ received' = Append(received, [sock |-> s, data |-> data])
  /\ IF Throws(data)
       THEN /\ running' = FALSE
            /\ UNCHANGED dataInMemory
       ELSE /\ dataInMemory' = Put(dataInMemory, Key(data), Position(data))
            /\ UNCHANGED running
  /\ UNCHANGED <<variant, nextSocket, connected, inserts, errors, emitted,
                 responses>>

\* server.ts: the async handler up to its await. The row is built inside the
\* try, so the TypeError of a missing payload is caught and logged.
UpdatePositionDb(s, data) ==
  /\ variant = "db"
  /\ running
  /\ s \in connected
  /\ Len(received) < MaxMessages
  /\ received' = Append(received, [sock |-> s, data |-> data])
  /\ IF Throws(data)
       THEN /\ errors' = errors + 1
            /\ UNCHANGED inserts
       ELSE /\ inserts' =
                 Append(inserts,
                        [msg |-> Len(received) + 1,
                         sock |-> s,
                         row |-> [user_id |-> Get(data, "userId"),
                                  trip_id |-> Get(data, "tripId"),
                                  lat |-> Get(data, "lat"),
                                  lng |-> Get(data, "lng")],
                         state |-> "pending"])
            /\ UNCHANGED errors
  /\ UNCHANGED <<variant, running, nextSocket, connected, dataInMemory,
                 emitted, responses>>

\* The handler submitting a failed insert once more.
InsertSettlesRetrying(i, outcome) ==
  /\ variant = "db"
  /\ running
  /\ i \in Awaiting
  /\ inserts' =
       IF outcome = "ok"
         THEN [inserts EXCEPT ![i].state = outcome]
         ELSE Append([inserts EXCEPT ![i].state = outcome],
                     [inserts[i] EXCEPT !.state = "pending"])
  /\ errors' = IF outcome = "ok" THEN errors ELSE errors + 1
  /\ UNCHANGED <<variant, running, nextSocket, connected, dataInMemory,
                 received, emitted, responses>>

\* server.ts: the handler resumes when the insert settles: it resolved with
\* error null ("ok"), resolved with an error value ("error"), or rejected
\* ("throw"); the last two are logged, none is retried or rethrown.
InsertSettles(i, outcome) ==
  /\ variant = "db"
  /\ running
  /\ i \in Awaiting
  /\ inserts' = [inserts EXCEPT ![i].state = outcome]
  /\ errors' = IF outcome = "ok" THEN errors ELSE errors + 1
  /\ UNCHANGED <<variant, running, nextSocket, connected, dataInMemory,
                 received, emitted, responses>>

\* The reset emitting to every socket ever accepted, the gone ones included.
ResetarStaleRegistry ==
  /\ variant = "mem"
  /\ running
  /\ responses < MaxResets
  /\ emitted' = [s \in Sockets |->
                   IF s < nextSocket THEN Append(emitted[s], ErroSistema)
                   ELSE emitted[s]]
  /\ responses' = responses + 1
  /\ UNCHANGED <<variant, running, nextSocket, connected, dataInMemory,
                 received, inserts, errors>>

\* part_000: POST /api/admin/resetar. io.emit reaches every connected socket.
Resetar ==
  /\ variant = "mem"
  /\ running
  /\ responses < MaxResets
  /\ emitted' = [s \in Sockets |->
                   IF s \in connected THEN Append(emitted[s], ErroSistema)
                   ELSE emitted[s]]
  /\ responses' = responses + 1
  /\ UNCHANGED <<variant, running, nextSocket, connected, dataInMemory,
                 received, inserts, errors>>

Next ==
  \/ Connect
  \/ \E s \in Sockets : Disconnect(s)
  \/ \E s \in Sockets, data \in Payloads : UpdatePositionMem(s, data)
  \/ \E s \in Sockets, data \in Payloads : UpdatePositionDb(s, data)
  \/ \E i \in DOMAIN inserts, outcome \in {"ok", "error", "throw"} :
       InsertSettles(i, outcome)
  \/ Resetar

Spec == Init /\ [][Next]_vars

\* ------------------------------------------------ vocabulary of the claims
\* A sample the specification calls valid: user and trip identifiers
\* present, latitude in [-90, 90], longitude in [-180, 180].
ValidSample(data) ==
  /\ data.kind = "object"
  /\ data.userId # Undefined
  /\ data.tripId # Undefined
  /\ data.lat.t = "number" /\ data.lat.n >= -90 /\ data.lat.n <= 90
  /\ data.lng.t = "number" /\ data.lng.n >= -180 /\ data.lng.n <= 180

\* The handler of the i-th received message has run to its end.
Handled(i) == \A k \in Awaiting : inserts[k].msg # i

\* The step received one more update_position message.
Ingests == Len(received') = Len(received) + 1

Arrived == received'[Len(received')]

InsertsOf(i) == {k \in DOMAIN inserts : inserts[k].msg = i}

Failed == {k \in DOMAIN inserts : inserts[k].state \in {"error", "throw"}}

CaughtTypeErrors == {i \in DOMAIN received : Throws(received[i].data)}

\* -------------------------------------------------------------------- claims

\* C1: last arrival wins. For two valid samples s1, s2 of the same user id,
\* s2 handled after s1 and no later sample of that user, once both have been
\* ingested dataInMemory holds exactly the lat/lng of s2 under that user id.
LastArrivalWins ==
  \A i, j \in DOMAIN received :
    LET s1 == received[i].data
        s2 == received[j].data
    IN  ( /\ i < j
          /\ ValidSample(s1) /\ ValidSample(s2)
          /\ Key(s1) = Key(s2)
          /\ Handled(i) /\ Handled(j)
          /\ \A k \in DOMAIN received : k > j => Key(received[k].data) # Key(s2) )
        => /\ Key(s2) \in DOMAIN dataInMemory
           /\ dataInMemory[Key(s2)] = Position(s2)

\* C2: every accepted sample, once handled, has caused exactly one insert
\* call carrying its userId, tripId, lat and lng, and (being the latest of
\* its user) is what the cache holds for that user.
EverySampleAppendedAndCached ==
  \A i \in DOMAIN received :
    LET d == received[i].data
    IN  (ValidSample(d) /\ Handled(i))
        => /\ Cardinality(InsertsOf(i)) = 1
           /\ \A k \in InsertsOf(i) :
                inserts[k].row = [user_id |-> d.userId, trip_id |-> d.tripId,
                                  lat |-> d.lat, lng |-> d.lng]
           /\ (\A k \in DOMAIN received : k > i => Key(received[k].data) # Key(d))
                => /\ Key(d) \in DOMAIN dataInMemory
                   /\ dataInMemory[Key(d)] = Position(d)

\* C3: an update_position arriving on a socket with no associated user id
\* neither changes the cache nor issues an insert.
UnauthenticatedIngestChangesNothing ==
  [][ (Ingests /\ SocketUserId(Arrived.sock) = Undefined)
        => (dataInMemory' = dataInMemory /\ inserts' = inserts) ]_vars

\* C4: a sample that is not valid (latitude or longitude out of range, user
\* or trip identifier missing) leaves the cache as it was and issues no
\* insert.
InvalidSampleChangesNothing ==
  [][ (Ingests /\ ~ValidSample(Arrived.data))
        => (dataInMemory' = dataInMemory /\ inserts' = inserts) ]_vars

\* C5: a failed insert (error value or exception) is never submitted again
\* (one insert call per received sample, carrying that sample), is logged,
\* never takes the process down, and leaves every connected socket able to
\* ingest its next sample.
SinkFailureIsNonFatal ==
  variant = "db" =>
    /\ running
    /\ \A k \in DOMAIN inserts :
         /\ inserts[k].msg \in DOMAIN received
         /\ InsertsOf(inserts[k].msg) = {k}
         /\ inserts[k].sock = received[inserts[k].msg].sock
         /\ inserts[k].row.lat = Get(received[inserts[k].msg].data, "lat")
    /\ errors = Cardinality(Failed) + Cardinality(CaughtTypeErrors)
    /\ Len(received) < MaxMessages =>
         \A s \in connected, d \in Payloads : ENABLED UpdatePositionDb(s, d)

\* A failed insert on a socket, and a later sample of the same socket stored.
SinkFailureThenIngest ==
  /\ variant = "db"
  /\ \E k \in Failed, m \in DOMAIN inserts :
       /\ inserts[m].msg > inserts[k].msg
       /\ inserts[m].sock = inserts[k].sock
       /\ inserts[m].state = "ok"

\* C6: a reset answers {ok: true} and sends exactly one erro_sistema to each
\* socket connected at that moment, and nothing to any other socket.
ResetReachesExactlyTheConnected ==
  [][ responses' # responses
        => /\ responses' = responses + 1
           /\ running'
           /\ \A s \in Sockets :
                emitted'[s] = IF s \in connected
                                THEN Append(emitted[s], ErroSistema)
                                ELSE emitted[s] ]_vars

\* Socket 1 left before the reset and got nothing; socket 2 got one message.
ResetAfterDisconnect ==
  /\ responses = 1
  /\ nextSocket > 2
  /\ connected = {2}
  /\ emitted[1] = <<>>
  /\ emitted[2] = <<ErroSistema>>

\* C7: within one socket the handling of a sample never starts before the
\* handling of the previous one, awaited insert included, has finished.
OneAtATimePerConnection ==
  \A i, j \in Awaiting : i # j => inserts[i].sock # inserts[j].sock

\* C8: the number of inserts issued and not yet settled stays below the
\* number of messages that can arrive: it is bounded by a constant that does
\* not grow with the arrivals.
InFlightBounded == Cardinality(Awaiting) < MaxMessages

NoFailureIsFatal == running = TRUE

====
